---- MODULE Spec2Model ----
(***************************************************************************)
(* Model of neuro_dot/File_IO.py: the 4dfp <-> NIfTI header conversion     *)
(* (nifti_4dfp), the native-space default (Make_NativeSpace_4dfp), the     *)
(* .ifh text header writer and reader, and the 4dfp branches of            *)
(* LoadVolumetricData / SaveVolumetricData.                                *)
(*                                                                         *)
(* Lengths (mmx, mmppix, center, the affine entries of mode 'n') are       *)
(* fixed-point integers counting half millimetres: the integer v stands    *)
(* for v/2 mm, so that dims/2 is exact for odd dims.  Spacings given to    *)
(* the model are whole millimetres, mm(1), mm(2), ...                      *)
(*                                                                         *)
(* Arrays are 0-based functions, as in the source.  A Python exception is  *)
(* modelled by the variable `raised` holding the exception's name and the  *)
(* call ending without a return value.                                     *)
(***************************************************************************)
EXTENDS Integers, Sequences, FiniteSets, TLC

\* ------------------------------------------------------------------ bounds
MaxDim == 2     \* largest voxel count per axis of a header given to nifti_4dfp
MaxMm  == 1     \* largest spacing magnitude, in mm
MaxMag == 1     \* largest magnitude of an srow entry given to mode '4'

mm(x) == 2 * x

Abs(x) == IF x < 0 THEN 0 - x ELSE x

\* ------------------------------------------------- Python dict operations
HasKey(h, k) == k \in DOMAIN h

\* h[k] = v
SetKey(h, k, v) == (k :> v) @@ h

NoHeader == [none |-> TRUE]

NoMsg == [size |-> -1, shape |-> <<>>]

\* --------------------------------------- Python int bit operations (>= 0)
Pow2(j) == IF j = 0 THEN 1 ELSE IF j = 1 THEN 2 ELSE IF j = 2 THEN 4 ELSE 8

TestBit(x, j) == (x \div Pow2(j)) % 2 = 1

\* x & (1 << j)
AndBit(x, j) == IF TestBit(x, j) THEN Pow2(j) ELSE 0

\* x | (1 << j)
OrBit(x, j) == IF TestBit(x, j) THEN x ELSE x + Pow2(j)

\* x ^ (1 << j)
XorBit(x, j) == IF TestBit(x, j) THEN x - Pow2(j) ELSE x + Pow2(j)

\* ~x on a Python int is -x-1 (bitwise complement), not logical negation
Invert(x) == 0 - x - 1

\* truth value of a Python int
Truthy(x) == x # 0

\* ---------------------------------------------------------------- to_lpi
\* the test of lines 310 / 530:
\*   np.logical_and((~(used & (1<<j))), abs(sform[j,i]) > max)
AxisFree(used, j) == Truthy(Invert(AndBit(used, j)))

RECURSIVE ScanAxis(_, _, _, _, _, _)
\* inner loop, lines 307-312 / 527-532: returns k
ScanAxis(sf, used, i, j, max, k) ==
    IF j > 2 THEN k
    ELSE IF AxisFree(used, j) /\ Abs(sf[j][i]) > max
         THEN ScanAxis(sf, used, i, j + 1, Abs(sf[j][i]), j)
         ELSE ScanAxis(sf, used, i, j + 1, max, k)

\* lines 305-327 / 525-547: claims output axes 0 and 1, sets order[2] from
\* `used`, then the flip mask `orientation`
to_lpi(sf, order0) ==
    LET k0    == ScanAxis(sf, 0, 0, 0, -1, -1)
        used0 == OrBit(0, k0)
        k1    == ScanAxis(sf, used0, 1, 0, -1, -1)
        used1 == OrBit(used0, k1)
        o1    == [order0 EXCEPT ![0] = k0, ![1] = k1]
        o2    == IF used1 = 3 THEN [o1 EXCEPT ![2] = 2]
                 ELSE IF used1 = 5 THEN [o1 EXCEPT ![2] = 1]
                 ELSE IF used1 = 6 THEN [o1 EXCEPT ![2] = 0]
                 ELSE o1
        f0    == IF sf[o2[0]][0] < 0 THEN XorBit(0, 0) ELSE 0
        f1    == IF sf[o2[1]][1] < 0 THEN XorBit(f0, 1) ELSE f0
        f2    == IF sf[o2[2]][2] < 0 THEN XorBit(f1, 2) ELSE f1
    IN  [used |-> used1, order |-> o2, orientation |-> f2]

\* ------------------------------------------------------- header values
\* a Python number held in a header: ty is "int", "float" or "str" (the
\* decimal text of n, as Read_4dfp_Header leaves the matrix sizes)
Num(ty, n) == [ty |-> ty, n |-> n]

Vec3(a, b, c) == [i \in 0..2 |-> IF i = 0 THEN a ELSE IF i = 1 THEN b ELSE c]

\* a Python sequence of three floats: ty is "list" or "ndarray"
Arr(ty, v) == [ty |-> ty, v |-> v]

\* -------------------------------------------------- Make_NativeSpace_4dfp
\* Make_NativeSpace_4dfp with the offset [1,1,1] in place of [0,1,1]: the
\* center is half a voxel further along x
Make_NativeSpace_4dfp_UnitOffset(h) ==
    LET h1  == IF HasKey(h, "mmppix") THEN h
               ELSE SetKey(h, "mmppix",
                      Arr("list", Vec3(h["mmx"].n, 0 - h["mmy"].n, 0 - h["mmz"].n)))
        nV  == Vec3(h1["nVx"].n, h1["nVy"].n, h1["nVz"].n)
        cen == [i \in 0..2 |-> (h1["mmppix"].v[i] * (nV[i] + 2)) \div 2]
    IN  IF HasKey(h1, "center") THEN [raised |-> "none", header |-> h1]
        ELSE [raised |-> "none", header |-> SetKey(h1, "center", Arr("ndarray", cen))]

\* Make_NativeSpace_4dfp with the center computed from [mmx,-mmy,-mmz] even
\* when the header came with an mmppix of its own
Make_NativeSpace_4dfp_FromSpacing(h) ==
    LET needmm == ~HasKey(h, "mmppix")
        okmm   == HasKey(h, "mmx") /\ HasKey(h, "mmy") /\ HasKey(h, "mmz")
        sp     == IF okmm THEN Vec3(h["mmx"].n, 0 - h["mmy"].n, 0 - h["mmz"].n)
                  ELSE h["mmppix"].v
        h1     == IF needmm /\ okmm THEN SetKey(h, "mmppix", Arr("list", sp)) ELSE h
        needc  == ~HasKey(h1, "center")
        oknv   == HasKey(h1, "nVx") /\ HasKey(h1, "nVy") /\ HasKey(h1, "nVz")
        nV     == Vec3(h1["nVx"].n, h1["nVy"].n, h1["nVz"].n)
        cen    == [i \in 0..2 |-> (sp[i] * (nV[i] + 2 * Vec3(0, 1, 1)[i])) \div 2]
    IN  IF needmm /\ ~okmm THEN [raised |-> "KeyError", header |-> h]
        ELSE IF needc /\ ~oknv THEN [raised |-> "KeyError", header |-> h1]
        ELSE IF needc THEN [raised |-> "none",
                            header |-> SetKey(h1, "center", Arr("ndarray", cen))]
        ELSE [raised |-> "none", header |-> h1]

\* lines 182-196.  header_out is header_in itself (line 182), so the result
\* is also the new value of the caller's header.
Make_NativeSpace_4dfp(h) ==
    LET needmm == ~HasKey(h, "mmppix")
        okmm   == HasKey(h, "mmx") /\ HasKey(h, "mmy") /\ HasKey(h, "mmz")
        h1     == IF needmm /\ okmm
                  THEN SetKey(h, "mmppix",
                         Arr("list", Vec3(h["mmx"].n, 0 - h["mmy"].n, 0 - h["mmz"].n)))
                  ELSE h
        needc  == ~HasKey(h1, "center")
        oknv   == HasKey(h1, "nVx") /\ HasKey(h1, "nVy") /\ HasKey(h1, "nVz")
        nV     == Vec3(h1["nVx"].n, h1["nVy"].n, h1["nVz"].n)
        off    == Vec3(0, 1, 1)
        \* mmppix * (dims/2 + [0,1,1]); mmppix[i] is even, so \div is exact
        cen    == [i \in 0..2 |-> (h1["mmppix"].v[i] * (nV[i] + 2 * off[i])) \div 2]
    IN  IF needmm /\ ~okmm THEN [raised |-> "KeyError", header |-> h]
        ELSE IF needc /\ ~oknv THEN [raised |-> "KeyError", header |-> h1]
        ELSE IF needc THEN [raised |-> "none",
                            header |-> SetKey(h1, "center", Arr("ndarray", cen))]
        ELSE [raised |-> "none", header |-> h1]

\* -------------------------------------------------------------- volumes
\* an ndarray: its shape and its elements in C order (last index fastest)
RECURSIVE Prod(_)
Prod(shape) == IF shape = <<>> THEN 1 ELSE Head(shape) * Prod(Tail(shape))

NoVolume == [shape |-> <<>>, data |-> <<>>]

\* a volume of the given shape holding 1, 2, 3, ... in C order
Ramp(shape) == [shape |-> shape, data |-> [q \in 1..Prod(shape) |-> q]]

\* a local name that no statement has bound yet
Unbound == <<>>

\* ------------------------------------------------------ nifti_4dfp, state
VARIABLES
    pc,           \* position inside nifti_4dfp, "idle" between calls
    mode,         \* 'n' or '4'
    header_in,    \* the dict the parameter refers to, changed in place
    header_arg,   \* the same dict as it was when the call began
    order,        \* AXES_4DFP / AXES_NII, then the to_lpi axis order
    sform,
    dim,
    spacing,
    center,
    used,
    orientation,  \* the flip mask
    revorder,
    raised,       \* name of the exception that ended the call, or "none"
    header_out,   \* the returned header, NoHeader when nothing is returned
    img_in,       \* the array the parameter refers to
    img_out,      \* the returned array, NoVolume when nothing is returned
    t4trans       \* the 4x4 work matrix, Unbound before its first assignment

nvars == <<pc, mode, header_in, header_arg, order, sform, dim, spacing,
           center, used, orientation, revorder, raised, header_out,
           img_in, img_out, t4trans>>

\* ------------------------------------------------- file operations, state
VARIABLES
    fs,         \* the files on disk, by resolved path
    cwd,        \* the working directory of the process
    handles,    \* paths of the handles opened and still open
    hdr,        \* the header the caller holds
    vol,        \* the volume the caller holds
    io_raised,  \* the exception of the last operation, or "none"
    io_msg,     \* what the exception's message names, NoMsg when nothing
    io_op       \* the last operation and the file it was about

iovars == <<fs, cwd, handles, hdr, vol, io_raised, io_msg, io_op>>

AXES_4DFP == [i \in 0..3 |-> i]

AXES_NII == [i \in 0..3 |-> i]

Zero3 == [i \in 0..2 |-> 0]

Zero4 == [i \in 0..3 |-> 0]

Zeros(rows) == [i \in 0..(rows - 1) |-> [j \in 0..3 |-> 0]]

\* ----------------------------------------------- headers given to mode 'n'
Acqs == {"transverse", "coronal", "sagittal"}

Spacings == {s \in (0 - mm(MaxMm))..mm(MaxMm) : s # 0 /\ s % 2 = 0}

\* a legacy header that carries mmppix and center: acq as Read_4dfp_Header
\* sets it ("absent" = no such key), `ori` an 'orientation' key a caller may
\* have set (0 = no such key), the sizes either as nVx..nVt or as
\* matrix_size
LegacyHeader(acq, ori, nv, sp, asNV) ==
    LET sizes == [i \in 0..3 |-> Num("int", IF i < 3 THEN nv[i] ELSE 1)]
        b0 == [filename |-> <<"vol">>,
               mmppix   |-> Arr("list", sp),
               center   |-> Arr("ndarray",
                              [i \in 0..2 |->
                                 (sp[i] * (nv[i] + 2 * Vec3(0, 1, 1)[i])) \div 2])]
        b1 == IF acq = "absent" THEN b0 ELSE SetKey(b0, "acq", acq)
        b2 == IF ori = 0 THEN b1 ELSE SetKey(b1, "orientation", ori)
    IN  IF asNV
        THEN SetKey(SetKey(SetKey(SetKey(b2, "nVx", sizes[0]), "nVy", sizes[1]),
                           "nVz", sizes[2]), "nVt", sizes[3])
        ELSE SetKey(b2, "matrix_size", sizes)

\* every orientation, size and spacing with the sizes as nVx..nVt, and every
\* orientation with the sizes as matrix_size
LegacyHeaders ==
    { LegacyHeader(acq, ori, nv, sp, TRUE) :
        acq \in Acqs \cup {"absent"}, ori \in {0, 2, 3, 4},
        nv \in [0..2 -> {1, MaxDim}], sp \in [0..2 -> Spacings] }
    \cup
    { LegacyHeader(acq, ori, [i \in 0..2 |-> MaxDim], [i \in 0..2 |-> mm(MaxMm)], FALSE) :
        acq \in Acqs \cup {"absent"}, ori \in {0, 2, 3, 4} }

\* the shape of the volume that goes with a legacy header
LegacyShape(h) ==
    IF HasKey(h, "nVx") THEN <<h["nVx"].n, h["nVy"].n, h["nVz"].n, h["nVt"].n>>
    ELSE <<h["matrix_size"][0].n, h["matrix_size"][1].n, h["matrix_size"][2].n,
           h["matrix_size"][3].n>>

\* ------------------------------------------------------ nifti_4dfp, mode 'n'
\* lines 212-224: the call begins; order aliases AXES_4DFP
Call_n(h) ==
    /\ pc = "idle"
    /\ pc' = "n_orient"
    /\ mode' = "n"
    /\ header_in' = h
    /\ header_arg' = h
    /\ order' = AXES_4DFP
    /\ img_in' = Ramp(LegacyShape(h))
    /\ UNCHANGED <<sform, dim, spacing, center, used, orientation, revorder,
                   raised, header_out>>
    /\ UNCHANGED iovars
    /\ UNCHANGED <<img_out, t4trans>>

Swap(o, a, b) == [o EXCEPT ![a] = o[b], ![b] = o[a]]

\* lines 226-254: orientation from 'acq', then the starting axis order
n_CheckOrientation ==
    /\ pc = "n_orient"
    /\ LET h0 == header_in
           h1 == IF HasKey(h0, "acq")
                 THEN IF h0["acq"] = "transverse" THEN SetKey(h0, "orientation", 2)
                      ELSE IF h0["acq"] = "sagittal" THEN SetKey(h0, "orienation", 4)
                      ELSE h0
                 ELSE h0
           h2 == IF HasKey(h1, "orientation") /\ HasKey(h1, "acq")
                    /\ h1["acq"] = "coronal"
                 THEN SetKey(h1, "orientation", 3)
                 ELSE h1
       IN  /\ header_in' = h2
           /\ sform' = Zeros(3)
           /\ IF ~HasKey(h2, "orientation")
              THEN \* line 247: header_in['orientation'] of a missing key
                   /\ raised' = "KeyError"
                   /\ pc' = "done"
                   /\ order' = order
              ELSE /\ raised' = raised
                   /\ pc' = "n_sform"
                   /\ order' = IF h2["orientation"] = 4 THEN Swap(order, 0, 1)
                               ELSE IF h2["orientation"] = 3 THEN Swap(order, 1, 2)
                               ELSE order
    /\ UNCHANGED <<mode, header_arg, dim, spacing, center, used, orientation,
                   revorder, header_out>>
    /\ UNCHANGED iovars
    /\ UNCHANGED <<img_in, img_out, t4trans>>

\* lines 278-285: the sign-flipped, re-expressed center/spacing of one axis
FlipCenter(v, a) ==
    LET sp1 == 0 - v.spacing[a]
    IN  [spacing |-> [v.spacing EXCEPT ![a] = sp1],
         center  |-> [v.center EXCEPT ![a] = sp1 * (v.dim[a] + 1) - (0 - v.center[a])],
         dim     |-> v.dim]

\* lines 256-301: the 3x4 affine from order, spacing and center; KeyError
\* when the header lacks a size, mmppix or center
n_BuildSform ==
    /\ pc = "n_sform"
    /\ LET okNV == HasKey(header_in, "nVx") =>
                      (/\ HasKey(header_in, "nVy") /\ HasKey(header_in, "nVz")
                       /\ HasKey(header_in, "nVt"))
           h1 == IF HasKey(header_in, "nVx") /\ okNV
                 THEN SetKey(header_in, "matrix_size",
                        [i \in 0..3 |-> IF i = 0 THEN header_in["nVx"]
                                        ELSE IF i = 1 THEN header_in["nVy"]
                                        ELSE IF i = 2 THEN header_in["nVz"]
                                        ELSE header_in["nVt"]])
                 ELSE header_in
           okMS == okNV /\ HasKey(h1, "matrix_size")
           d  == [i \in 0..3 |-> h1["matrix_size"][i].n]
           v0 == [spacing |-> h1["mmppix"].v, center |-> h1["center"].v, dim |-> d]
           v1 == IF h1["orientation"] = 4 THEN FlipCenter(v0, 2)
                 ELSE IF h1["orientation"] = 3 THEN FlipCenter(v0, 0)
                 ELSE v0
           \* lines 288-290, the Fortran 1-indexing adjustment
           c2 == [i \in 0..2 |-> 0 - (v1.center[i] - v1.spacing[i])]
           \* lines 257-258 and 292-295
           unit == [i \in 0..2 |-> [j \in 0..3 |->
                          IF j < 3 /\ order[j] = i THEN 1 ELSE 0]]
           col3(i) == c2[0] * unit[i][0] + c2[1] * unit[i][1]
                        + c2[2] * unit[i][2]
       IN  /\ header_in' = h1
           /\ IF okMS /\ HasKey(h1, "mmppix") /\ HasKey(h1, "center")
              THEN /\ dim' = d
                   /\ spacing' = v1.spacing
                   /\ center' = c2
                   /\ sform' = [i \in 0..2 |-> [j \in 0..3 |->
                                  IF j < 3 THEN unit[i][j] * v1.spacing[j] ELSE col3(i)]]
                   /\ t4trans' = [i \in 0..3 |-> IF i < 3 THEN unit[i] ELSE Zero4]
                   /\ raised' = raised
                   /\ pc' = "n_tolpi"
              ELSE \* lines 262-276: a key the header does not have
                   /\ dim' = IF okMS THEN d ELSE dim
                   /\ spacing' = IF okMS /\ HasKey(h1, "mmppix") THEN h1["mmppix"].v
                                 ELSE spacing
                   /\ sform' = unit
                   /\ UNCHANGED <<center, t4trans>>
                   /\ raised' = "KeyError"
                   /\ pc' = "done"
    /\ UNCHANGED <<mode, header_arg, order, used, orientation, revorder, header_out>>
    /\ UNCHANGED iovars
    /\ UNCHANGED <<img_in, img_out>>

\* lines 304-327
n_ToLpi ==
    /\ pc = "n_tolpi"
    /\ LET r == to_lpi(sform, order)
       IN  /\ used' = r.used
           /\ order' = r.order
           /\ orientation' = r.orientation
    /\ pc' = "n_flip"
    /\ UNCHANGED <<mode, header_in, header_arg, sform, dim, spacing, center,
                   revorder, raised, header_out>>
    /\ UNCHANGED iovars
    /\ UNCHANGED <<img_in, img_out, t4trans>>

\* FlipAxis with the translation taking (dim[i]-1) times the absolute value
\* of the column
FlipAxis_Abs(sf, d, i) ==
    [r \in DOMAIN sf |->
        IF r > 2 THEN sf[r]
        ELSE [c \in 0..3 |->
                IF c = 3 THEN (d - 1) * Abs(sf[r][i]) + sf[r][3]
                ELSE IF c = i THEN 0 - sf[r][i]
                ELSE sf[r][c]]]

\* lines 331-334 for one axis i: the translation takes (dim[i]-1) times the
\* column, then the column is negated
FlipAxis(sf, d, i) ==
    [r \in DOMAIN sf |->
        IF r > 2 THEN sf[r]
        ELSE [c \in 0..3 |->
                IF c = 3 THEN (d - 1) * sf[r][i] + sf[r][3]
                ELSE IF c = i THEN 0 - sf[r][i]
                ELSE sf[r][c]]]

\* lines 329-334, mode 'n': dim[i] is the legacy size of axis i
ApplyFlips_n(sf, mask, d) ==
    LET s0 == IF TestBit(mask, 0) THEN FlipAxis(sf, d[0], 0) ELSE sf
        s1 == IF TestBit(mask, 1) THEN FlipAxis(s0, d[1], 1) ELSE s0
        s2 == IF TestBit(mask, 2) THEN FlipAxis(s1, d[2], 2) ELSE s1
    IN  s2

n_AutoOrient ==
    /\ pc = "n_flip"
    /\ sform' = ApplyFlips_n(sform, orientation, dim)
    /\ pc' = "n_reorder"
    /\ UNCHANGED <<mode, header_in, header_arg, order, dim, spacing, center,
                   used, orientation, revorder, raised, header_out>>
    /\ UNCHANGED iovars
    /\ UNCHANGED <<img_in, img_out, t4trans>>

\* lines 335-336: orig_sform aliases sform, then np.zeros(3,4) is called
\* with 4 in the dtype position and raises TypeError; lines 337-447 are
\* never run and no header is returned
n_Reorder ==
    /\ pc = "n_reorder"
    /\ raised' = "TypeError"
    /\ pc' = "done"
    /\ UNCHANGED <<mode, header_in, header_arg, order, sform, dim, spacing,
                   center, used, orientation, revorder, header_out>>
    /\ UNCHANGED iovars
    /\ UNCHANGED <<img_in, img_out, t4trans>>

\* ------------------------------------------------------ nifti_4dfp, mode '4'
\* a value of sform_code / qform_code: a Python str (name) or an int (num)
CodeStr(s) == [name |-> s, num |-> 0]

CodeInt(n) == [name |-> "", num |-> n]

IsStr(c, s) == c.name = s

IsInt(c, n) == c.name = "" /\ c.num = n

\* lines 461-468 / 470-477
NormalizeCode(c) ==
    IF IsStr(c, "scanner") THEN CodeInt(1)
    ELSE IF IsStr(c, "talairach") THEN CodeInt(3)
    ELSE IF IsStr(c, "unknown") THEN CodeInt(2)
    ELSE IF IsInt(c, 0) THEN CodeInt(0)
    ELSE c

Codes == {CodeInt(n) : n \in 0..4} \cup
         {CodeStr(s) : s \in {"scanner", "talairach", "unknown", "aligned"}}

\* the columns of the linear part: entries of magnitude 0, 1 or MaxMag
Cols == [0..2 -> {0 - MaxMag, 0, 1, MaxMag}]

Col2s == {Vec3(0, 0, 1), Vec3(0, 0, -1), Vec3(-1, 0, 0), Vec3(0, 0, 0)}

\* a standardized header whose srow_x/y/z hold the columns c0, c1, c2 and a
\* zero translation
NiftiHeader(sc, qc, c0, c1, c2, pd0) ==
    LET row(r) == [j \in 0..3 |-> IF j = 0 THEN c0[r] ELSE IF j = 1 THEN c1[r]
                                  ELSE IF j = 2 THEN c2[r] ELSE 0]
    IN  [sform_code |-> sc, qform_code |-> qc,
         srow_x |-> row(0), srow_y |-> row(1), srow_z |-> row(2),
         dim    |-> [i \in 0..7 |-> IF i = 0 THEN 4 ELSE IF i < 4 THEN 2
                                    ELSE IF i = 4 THEN 1 ELSE 0],
         pixdim |-> [i \in 0..7 |-> IF i = 0 THEN pd0 ELSE IF i < 5 THEN 1 ELSE 0],
         quatern_b |-> 0, quatern_c |-> 0, quatern_d |-> 1,
         qoffset_x |-> 0, qoffset_y |-> 0, qoffset_z |-> 0]

\* every code pair on one matrix, every matrix under one code pair, each
\* bare or wrapped as {'raw': header}
NiftiHeaders ==
    LET bare == { NiftiHeader(sc, qc, Vec3(1, 0, 0), Vec3(0, -1, 0), Vec3(0, 0, 1), pd0) :
                    sc \in Codes, qc \in Codes, pd0 \in {-1, 1} }
                \cup
                { NiftiHeader(CodeInt(3), CodeInt(3), c0, c1, c2, 1) :
                    c0 \in Cols, c1 \in Cols, c2 \in Col2s }
        some == { NiftiHeader(sc, CodeInt(1), Vec3(1, 0, 0), Vec3(0, 1, 0), Vec3(0, 0, 1), 1) :
                    sc \in Codes }
    IN  bare \cup { [raw |-> h] : h \in some }

\* the shape of the volume that goes with a standardized header
NiftiShape(h) ==
    LET d == IF HasKey(h, "raw") THEN h["raw"]["dim"] ELSE h["dim"]
    IN  <<d[1], d[2], d[3], d[4]>>

\* lines 450-460: the call begins; order aliases AXES_NII through axes
Call_4(h) ==
    /\ pc = "idle"
    /\ pc' = "f_codes"
    /\ mode' = "4"
    /\ header_in' = h
    /\ header_arg' = h
    /\ order' = AXES_NII
    /\ img_in' = Ramp(NiftiShape(h))
    /\ UNCHANGED <<sform, dim, spacing, center, used, orientation, revorder,
                   raised, header_out>>
    /\ UNCHANGED iovars
    /\ UNCHANGED <<img_out, t4trans>>

\* lines 456-477: header_in is rebound to header_in['raw'] when present, then
\* the two codes are rewritten in that dict
f_NormalizeCodes ==
    /\ pc = "f_codes"
    /\ LET h0 == IF HasKey(header_in, "raw") THEN header_in["raw"] ELSE header_in
           h1 == [h0 EXCEPT !["sform_code"] = NormalizeCode(h0["sform_code"])]
           h2 == [h1 EXCEPT !["qform_code"] = NormalizeCode(h1["qform_code"])]
       IN  header_in' = h2
    /\ pc' = "f_parse"
    /\ UNCHANGED <<mode, header_arg, order, sform, dim, spacing, center, used,
                   orientation, revorder, raised, header_out>>
    /\ UNCHANGED iovars
    /\ UNCHANGED <<img_in, img_out, t4trans>>

\* math.sqrt of 0 or 1; -1 stands for the ValueError of a negative argument
Sqrt01(x) == IF x = 1 THEN 1 ELSE IF x = 0 THEN 0 ELSE -1

\* lines 493-518: rotation from the quaternion, scaled by pixdim, qoffset as
\* translation
QuaternSform(h, pd) ==
    LET b == h["quatern_b"]
        c == h["quatern_c"]
        d == h["quatern_d"]
        a == Sqrt01(1 - (b * b + c * c + d * d))
        R == [i \in 0..2 |-> [j \in 0..2 |->
               IF i = 0 /\ j = 0 THEN a * a + b * b - c * c - d * d
               ELSE IF i = 0 /\ j = 1 THEN 2 * b * c - 2 * a * d
               ELSE IF i = 0 /\ j = 2 THEN 2 * b * d + 2 * a * c
               ELSE IF i = 1 /\ j = 0 THEN 2 * b * c + 2 * a * d
               ELSE IF i = 1 /\ j = 1 THEN a * a + c * c - b * b - d * d
               ELSE IF i = 1 /\ j = 2 THEN 2 * c * d - 2 * a * b
               ELSE IF i = 2 /\ j = 0 THEN 2 * b * d - 2 * a * c
               ELSE IF i = 2 /\ j = 1 THEN 2 * c * d + 2 * a * b
               ELSE a * a + d * d - c * c - b * b]]
        off == Vec3(h["qoffset_x"], h["qoffset_y"], h["qoffset_z"])
    IN  [i \in 0..3 |-> [j \in 0..3 |->
           IF i = 3 THEN 0
           ELSE IF j = 3 THEN off[i]
           ELSE R[i][j] * pd[j + 1]]]

\* lines 480-522: the affine from srow_x/y/z, from the quaternion, or from
\* pixdim alone
f_ParseNifti ==
    /\ pc = "f_parse"
    /\ order' = AXES_NII
    /\ IF ~IsStr(header_in["sform_code"], "unknown")
       THEN /\ sform' = [i \in 0..3 |-> [j \in 0..3 |->
                           IF i = 0 THEN header_in["srow_x"][j]
                           ELSE IF i = 1 THEN header_in["srow_y"][j]
                           ELSE IF i = 2 THEN header_in["srow_z"][j]
                           ELSE 0]]
            /\ header_in' = header_in
            /\ raised' = raised
            /\ pc' = "f_tolpi"
       ELSE IF ~IsStr(header_in["qform_code"], "unknown")
       THEN LET b  == header_in["quatern_b"]
                c  == header_in["quatern_c"]
                d  == header_in["quatern_d"]
                pd == IF header_in["pixdim"][0] < 0
                      THEN [header_in["pixdim"] EXCEPT ![3] = 0 - @]
                      ELSE header_in["pixdim"]
            IN  IF 1 - (b * b + c * c + d * d) < 0
                THEN /\ raised' = "ValueError"
                     /\ pc' = "done"
                     /\ UNCHANGED <<sform, header_in>>
                ELSE /\ header_in' = [header_in EXCEPT !["pixdim"] = pd]
                     /\ sform' = QuaternSform(header_in, pd)
                     /\ raised' = raised
                     /\ pc' = "f_tolpi"
       ELSE /\ sform' = [i \in 0..3 |-> [j \in 0..3 |->
                           IF i = j /\ i < 3 THEN header_in["pixdim"][i + 1] ELSE 0]]
            /\ header_in' = header_in
            /\ raised' = raised
            /\ pc' = "f_tolpi"
    /\ UNCHANGED <<mode, header_arg, dim, spacing, center, used, orientation,
                   revorder, header_out>>
    /\ UNCHANGED iovars
    /\ UNCHANGED <<img_in, img_out, t4trans>>

\* lines 524-547
f_ToLpi ==
    /\ pc = "f_tolpi"
    /\ LET r == to_lpi(sform, order)
       IN  /\ used' = r.used
           /\ order' = r.order
           /\ orientation' = r.orientation
    /\ pc' = "f_revorder"
    /\ UNCHANGED <<mode, header_in, header_arg, sform, dim, spacing, center,
                   revorder, raised, header_out>>
    /\ UNCHANGED iovars
    /\ UNCHANGED <<img_in, img_out, t4trans>>

\* lines 347-349 / 550-552: revorder[order[i]] = i for i = 0..3 in turn, on
\* an array of zeros
RevOrder(o) ==
    [r \in 0..3 |->
        IF o[3] = r THEN 3
        ELSE IF o[2] = r THEN 2
        ELSE IF o[1] = r THEN 1
        ELSE 0]

\* lines 550-557: revorder, two bits of the flip mask toggled, then
\* np.zeros(3,4) is called with 4 in the dtype position and raises
\* TypeError; lines 558-683 are never run and no header is returned
f_Revorder ==
    /\ pc = "f_revorder"
    /\ revorder' = RevOrder(order)
    /\ orientation' = XorBit(XorBit(orientation, RevOrder(order)[0]),
                             RevOrder(order)[1])
    /\ raised' = "TypeError"
    /\ pc' = "done"
    /\ UNCHANGED <<mode, header_in, header_arg, order, sform, dim, spacing,
                   center, used, header_out>>
    /\ UNCHANGED iovars
    /\ UNCHANGED <<img_in, img_out, t4trans>>

\* ------------------------------------------------------------- call ends
\* the caller's header object after the call: the dict itself, or the dict
\* whose 'raw' entry the function worked on
CallerHeader ==
    IF HasKey(header_arg, "raw") /\ pc # "f_codes"
    THEN [raw |-> header_in]
    ELSE header_in

\* the exception reaches the caller (or line 684 returns); the locals die
Return ==
    /\ pc = "done"
    /\ pc' = "idle"
    /\ mode' = "-"
    /\ header_in' = NoHeader
    /\ header_arg' = NoHeader
    /\ order' = Zero4
    /\ sform' = Zeros(3)
    /\ dim' = Zero4
    /\ spacing' = Zero3
    /\ center' = Zero3
    /\ used' = 0
    /\ orientation' = 0
    /\ revorder' = Zero4
    /\ raised' = "none"
    /\ header_out' = NoHeader
    /\ img_in' = NoVolume
    /\ img_out' = NoVolume
    /\ t4trans' = Unbound
    /\ UNCHANGED iovars

InitNifti ==
    /\ pc = "idle"
    /\ mode = "-"
    /\ header_in = NoHeader
    /\ header_arg = NoHeader
    /\ order = Zero4
    /\ sform = Zeros(3)
    /\ dim = Zero4
    /\ spacing = Zero3
    /\ center = Zero3
    /\ used = 0
    /\ orientation = 0
    /\ revorder = Zero4
    /\ raised = "none"
    /\ header_out = NoHeader
    /\ img_in = NoVolume
    /\ img_out = NoVolume
    /\ t4trans = Unbound

\* ========================================================= files and text
\* A Python str is a sequence of atoms (pieces of text), so that + is \o and
\* two strs are equal exactly when their atom sequences are.  "/" is the
\* path separator.
\* ---------------------------------------------------------------- paths
RECURSIVE Collapse(_)
\* a path with runs of separators reduced to one and none at the end
Collapse(p) ==
    IF p = <<>> THEN <<>>
    ELSE IF Head(p) = "/" /\ (Tail(p) = <<>> \/ Head(Tail(p)) = "/")
         THEN Collapse(Tail(p))
         ELSE <<Head(p)>> \o Collapse(Tail(p))

\* the file a path names, seen from the working directory wd
Resolve(wd, p) ==
    IF p # <<>> /\ Head(p) = "/" THEN Collapse(p) ELSE Collapse(wd \o <<"/">> \o p)

RECURSIVE ParentDir(_)
ParentDir(p) ==
    IF p = <<>> THEN <<>>
    ELSE IF p[Len(p)] = "/" THEN SubSeq(p, 1, Len(p) - 1)
    ELSE ParentDir(SubSeq(p, 1, Len(p) - 1))

\* ----------------------------------------------------------------- text
\* one whitespace-separated word of a header value: the characters before
\* and after a number (brackets, commas), and the number or the word itself
Token(pre, kind, w, n, post) ==
    [pre |-> pre, kind |-> kind, w |-> w, n |-> n, post |-> post]

TokWord(w) == Token("", "word", w, 0, "")

\* str(n) of an int, or a str that holds decimal digits
TokInt(n) == Token("", "int", <<>>, n, "")

\* str(x) of a float, e.g. '2.0'
TokFloat(n) == Token("", "float", <<>>, n, "")

Word(s) == <<TokWord(<<s>>)>>

\* str() of a header number
StrOfNum(x) ==
    IF x.ty \in {"int", "str"} THEN <<TokInt(x.n)>> ELSE <<TokFloat(x.n)>>

\* str() of a list of floats, '[a, b, c]', or of an ndarray, '[a b c]'
StrOfArr(a) ==
    LET sep == IF a.ty = "list" THEN "," ELSE ""
    IN  << Token("[", "float", <<>>, a.v[0], sep),
           Token("", "float", <<>>, a.v[1], sep),
           Token("", "float", <<>>, a.v[2], "]") >>

\* float(word) succeeds on the text of a number and nothing else
IsFloatText(t) == t.kind \in {"int", "float"} /\ t.pre = "" /\ t.post = ""

\* a line of an .ifh file; seps counts the ':=' in it
Line(key, value) == [seps |-> 1, key |-> key, value |-> value]

BlankLine == [seps |-> 0, key |-> "", value |-> <<>>]

\* -------------------------------------------------------------- volumes
\* the stride of axis a (0-based) in C order
Stride(shape, a) == Prod(SubSeq(shape, a + 2, Len(shape)))

\* index along axis a of the element at flat offset p (0-based)
IndexAt(shape, a, p) == (p \div Stride(shape, a)) % shape[a + 1]

\* np.flip(volume, a) for a < ndim
Flip(v, a) ==
    [shape |-> v.shape,
     data  |-> [q \in 1..Len(v.data) |->
                  LET p == q - 1
                      i == IndexAt(v.shape, a, p)
                  IN  v.data[p + (v.shape[a + 1] - 1 - 2 * i) * Stride(v.shape, a) + 1]]]

RECURSIVE FlipAll(_, _)
\* np.flip along each axis of the sequence `axes` in turn; AxisError when an
\* axis is not below ndim
FlipAll(r, axes) ==
    IF axes = <<>> \/ r.raised # "none" THEN r
    ELSE IF Head(axes) >= Len(r.volume.shape)
         THEN [raised |-> "AxisError", volume |-> r.volume]
         ELSE FlipAll([raised |-> "none", volume |-> Flip(r.volume, Head(axes))],
                      Tail(axes))

\* the np.flip calls of lines 103-111 and 817-825
AcqFlips(acq) ==
    IF acq = "transverse" THEN <<1>>
    ELSE IF acq = "coronal" THEN <<1, 2>>
    ELSE IF acq = "sagittal" THEN <<0, 1, 2>>
    ELSE <<>>

\* np.squeeze: the axes of length 1 are dropped
Squeeze(v) ==
    [shape |-> SelectSeq(v.shape, LAMBDA n : n # 1), data |-> v.data]

\* ----------------------------------------------------- Write_4dfp_Header
\* one statement of the with block: the exception it raises ("none" if it
\* runs) and the lines it prints; print(s + '\n') leaves a blank line after s
Stmt(exc, lines) == [exc |-> exc, lines |-> lines]

PrintLine(key, value) == Stmt("none", <<Line(key, value), BlankLine>>)

\* 'key := ' + str(header[k]), KeyError when header has no key k
PrintNum(header, key, k) ==
    IF HasKey(header, k) THEN PrintLine(key, StrOfNum(header[k]))
    ELSE Stmt("KeyError", <<>>)

\* 'key := ' + header[k] for a str
PrintStr(header, key, k) ==
    IF HasKey(header, k) THEN PrintLine(key, header[k])
    ELSE Stmt("KeyError", <<>>)

\* lines 1183-1186: if k in header: print('k := ' + str(header[k]))
PrintArr(header, k) ==
    IF HasKey(header, k) THEN PrintLine(k, StrOfArr(header[k]))
    ELSE Stmt("none", <<>>)

\* lines 1160-1165
PrintByte(header) ==
    IF ~HasKey(header, "byte") THEN Stmt("KeyError", <<>>)
    ELSE IF header["byte"] = "b" THEN PrintLine("imagedata byte order", Word("bigendian"))
    ELSE IF header["byte"] = "l" THEN PrintLine("imagedata byte order", Word("littleendian"))
    ELSE Stmt("UnboundLocalError", <<>>)

\* lines 1167-1172: header.acq is an attribute access, which a plain dict
\* does not have
PrintOrientation(header) ==
    IF header["__class__"] # "AttrDict" \/ ~HasKey(header, "acq")
    THEN Stmt("AttributeError", <<>>)
    ELSE IF header["acq"] = "transverse" THEN PrintLine("orientation", <<TokInt(2)>>)
    ELSE IF header["acq"] = "coronal" THEN PrintLine("orientation", <<TokInt(3)>>)
    ELSE IF header["acq"] = "sagittal" THEN PrintLine("orientation", <<TokInt(4)>>)
    ELSE Stmt("none", <<>>)

\* lines 1150-1186 in order
WriteStatements(header, filename) ==
    << PrintLine("INTERFILE", <<>>),
       PrintStr(header, "version of keys", "version_of_keys"),
       PrintLine("image modality", Word("dot")),
       PrintLine("originating system", Word("Neuro-DOT")),
       PrintLine("conversion program", Word("MATLABto4dfp")),
       PrintLine("original institution", Word("Washington") \o Word("University")),
       PrintStr(header, "number format", "format"),
       PrintLine("name of data file", <<TokWord(filename)>>),
       PrintNum(header, "number of bytes per pixel", "bytes_per_pixel"),
       PrintByte(header),
       PrintOrientation(header),
       PrintNum(header, "number of dimensions", "nDim"),
       PrintNum(header, "matrix size [1]", "nVx"),
       PrintNum(header, "matrix size [2]", "nVy"),
       PrintNum(header, "matrix size [3]", "nVz"),
       PrintNum(header, "matrix size [4]", "nVt"),
       PrintNum(header, "scaling factor (mm/pixel) [1]", "mmx"),
       PrintNum(header, "scaling factor (mm/pixel) [2]", "mmy"),
       PrintNum(header, "scaling factor (mm/pixel) [3]", "mmz"),
       PrintArr(header, "mmppix"),
       PrintArr(header, "center") >>

RECURSIVE RunStatements(_, _)
\* the statements run in order until one raises; what was printed before
\* stays in the file, which the with block closes
RunStatements(stmts, acc) ==
    IF stmts = <<>> THEN [raised |-> "none", lines |-> acc]
    ELSE IF Head(stmts).exc # "none" THEN [raised |-> Head(stmts).exc, lines |-> acc]
    ELSE RunStatements(Tail(stmts), acc \o Head(stmts).lines)

IfhFile(lines) == [lines |-> lines, data |-> <<>>]

ImgFile(data) == [lines |-> <<>>, data |-> data]

\* lines 1147-1188.  dirs: the directories that exist; disk: the files by
\* resolved path.  Returns the exception, the new working directory and the
\* new disk.
Write_4dfp_Header(header, filename, pn, wd, dirs, disk) ==
    LET wd1  == Resolve(wd, pn)
        path == Resolve(wd1, filename \o <<".ifh">>)
        r    == RunStatements(WriteStatements(header, filename), <<>>)
    IN  IF wd1 \notin dirs
        THEN [raised |-> "FileNotFoundError", cwd |-> wd, fs |-> disk]
        ELSE IF ParentDir(path) \notin dirs
        THEN [raised |-> "FileNotFoundError", cwd |-> wd1, fs |-> disk]
        ELSE [raised |-> r.raised, cwd |-> wd1,
              fs |-> SetKey(disk, path, IfhFile(r.lines))]

\* ------------------------------------------------------ Read_4dfp_Header
RECURSIVE ParseLines(_, _)
\* lines 698 and 705-712 on the first n lines: header_ifh[key] = value for
\* every line holding one ':=', a later line replacing an earlier one of the
\* same key
ParseLines(lines, n) ==
    IF n = 0 THEN [k \in {} |-> <<>>]
    ELSE IF lines[n].seps = 1
         THEN SetKey(ParseLines(lines, n - 1), lines[n].key, lines[n].value)
         ELSE ParseLines(lines, n - 1)

ParseIfh(lines) == ParseLines(lines, Len(lines))

\* a header entry that keeps the value as the str it was read as
StrNum(text) ==
    IF Len(text) = 1 /\ text[1].kind \in {"int", "float"}
          /\ text[1].pre = "" /\ text[1].post = ""
    THEN Num(IF text[1].kind = "int" THEN "str" ELSE "strf", text[1].n)
    ELSE Num("text", 0)

\* float(value)
FloatOk(text) == Len(text) = 1 /\ IsFloatText(text[1])

\* list(map(float, value.split()))
FloatsOk(text) == \A n \in 1..Len(text) : IsFloatText(text[n])

Floats(text) == Arr("list", [i \in 0..(Len(text) - 1) |-> text[i + 1].n])

\* lines 731-739
ByteOf(ifh) ==
    IF ~HasKey(ifh, "imagedata byte order") THEN "b"
    ELSE IF ifh["imagedata byte order"] = Word("littleendian") THEN "l"
    ELSE "b"

\* lines 741-747
AcqOf(text) ==
    IF text = <<TokInt(2)>> THEN "transverse"
    ELSE IF text = <<TokInt(3)>> THEN "coronal"
    ELSE IF text = <<TokInt(4)>> THEN "sagittal"
    ELSE "none"

\* lines 714-787: the header key each .ifh key is copied to, and how:
\* as the str read, through float(), or through list(map(float, split()))
IfhFields ==
    { [k |-> "version_of_keys", ifhkey |-> "version of keys", as |-> "str"],
      [k |-> "format", ifhkey |-> "number format", as |-> "str"],
      [k |-> "conversion_program", ifhkey |-> "conversion program", as |-> "str"],
      [k |-> "filename", ifhkey |-> "name of data file", as |-> "str"],
      [k |-> "bytes_per_pixel", ifhkey |-> "number of bytes per pixel", as |-> "strnum"],
      [k |-> "acq", ifhkey |-> "orientation", as |-> "acq"],
      [k |-> "nDim", ifhkey |-> "number of dimensions", as |-> "strnum"],
      [k |-> "nVx", ifhkey |-> "matrix size [1]", as |-> "strnum"],
      [k |-> "nVy", ifhkey |-> "matrix size [2]", as |-> "strnum"],
      [k |-> "nVz", ifhkey |-> "matrix size [3]", as |-> "strnum"],
      [k |-> "nVt", ifhkey |-> "matrix size [4]", as |-> "strnum"],
      [k |-> "mmx", ifhkey |-> "scaling factor (mm/pixel) [1]", as |-> "float"],
      [k |-> "mmy", ifhkey |-> "scaling factor (mm/pixel) [2]", as |-> "float"],
      [k |-> "mmz", ifhkey |-> "scaling factor (mm/pixel) [3]", as |-> "float"],
      [k |-> "subjcode", ifhkey |-> "patient ID", as |-> "str"],
      [k |-> "filedate", ifhkey |-> "date", as |-> "str"],
      [k |-> "mmppix", ifhkey |-> "mmppix", as |-> "floats"],
      [k |-> "center", ifhkey |-> "center", as |-> "floats"] }

\* the fields the file sets: its key is present, and an orientation is one
\* of '2', '3', '4'
FieldsSet(ifh) ==
    {f \in IfhFields : /\ HasKey(ifh, f.ifhkey)
                       /\ f.as = "acq" => AcqOf(ifh[f.ifhkey]) # "none"}

\* a value that float() rejects: a ValueError
BadFloat(ifh) ==
    \E f \in FieldsSet(ifh) :
        \/ f.as = "float" /\ ~FloatOk(ifh[f.ifhkey])
        \/ f.as = "floats" /\ ~FloatsOk(ifh[f.ifhkey])

\* the value header[f.k] gets
FieldValue(ifh, f) ==
    IF f.as = "str" THEN ifh[f.ifhkey]
    ELSE IF f.as = "strnum" THEN StrNum(ifh[f.ifhkey])
    ELSE IF f.as = "float" THEN Num("float", ifh[f.ifhkey][1].n)
    ELSE IF f.as = "floats" THEN Floats(ifh[f.ifhkey])
    ELSE AcqOf(ifh[f.ifhkey])

\* lines 714-787 on header_ifh; the header is a plain dict
InterpretIfh(ifh) ==
    LET set == FieldsSet(ifh)
    IN  [k \in {f.k : f \in set} \cup {"byte", "__class__"} |->
            IF k = "byte" THEN ByteOf(ifh)
            ELSE IF k = "__class__" THEN "dict"
            ELSE FieldValue(ifh, CHOOSE f \in set : f.k = k)]

\* lines 697-787.  Returns the exception, the header and the paths of the
\* handles opened and not closed by a statement of the function (fid, line
\* 701).
Read_4dfp_Header(filename, pn, wd, disk) ==
    LET p1 == Resolve(wd, filename)
        p2 == Resolve(wd, pn \o filename)
    IN  IF p1 \notin DOMAIN disk
        THEN [raised |-> "FileNotFoundError", header |-> NoHeader, open |-> {}]
        ELSE IF p2 \notin DOMAIN disk
        THEN [raised |-> "AssertionError", header |-> NoHeader, open |-> {p1}]
        ELSE IF BadFloat(ParseIfh(disk[p2].lines))
        THEN [raised |-> "ValueError", header |-> NoHeader, open |-> {p1}]
        ELSE [raised |-> "none", header |-> InterpretIfh(ParseIfh(disk[p2].lines)),
              open |-> {p1}]

\* ------------------------------------------- LoadVolumetricData, '4dfp'
\* int(x) of a header entry raises ValueError on text that is not an integer
IntOk(x) == x.ty \in {"int", "float", "str"}

\* np.reshape of an array whose size is not the product of the shape raises
\* ValueError('cannot reshape array of size N into shape (a,b,c,d)'): the
\* message holds the number of values read and the shape asked for
ReshapeMsg(size, shape) == [size |-> size, shape |-> shape]

\* LoadVolumetricData with the values read cut or zero-filled to the size
\* the header declares, in place of the reshape error
LoadVolumetricData_Resizing(filename, pn, wd, disk) ==
    LET r    == Read_4dfp_Header(filename \o <<".4dfp", ".ifh">>, pn, wd, disk)
        img  == Resolve(wd, pn \o <<"/">> \o filename \o <<".4dfp", ".img">>)
        fail(e) == [raised |-> e, msg |-> NoMsg, volume |-> NoVolume,
                    header |-> NoHeader, open |-> r.open]
        m    == Make_NativeSpace_4dfp(r.header)
        h    == m.header
        hasn == HasKey(h, "nVx") /\ HasKey(h, "nVy") /\ HasKey(h, "nVz")
                   /\ HasKey(h, "nVt")
        shp  == <<h["nVx"].n, h["nVy"].n, h["nVz"].n, h["nVt"].n>>
        read == disk[img].data
        v0   == Squeeze([shape |-> shp,
                         data  |-> [q \in 1..Prod(shp) |->
                                      IF q <= Len(read) THEN read[q] ELSE 0]])
        f    == FlipAll([raised |-> "none", volume |-> v0], AcqFlips(h["acq"]))
    IN  IF r.raised # "none" THEN fail(r.raised)
        ELSE IF img \notin DOMAIN disk THEN fail("FileNotFoundError")
        ELSE IF m.raised # "none" THEN fail(m.raised)
        ELSE IF ~hasn THEN fail("KeyError")
        ELSE IF \E k \in {"nVx", "nVy", "nVz", "nVt"} : ~IntOk(h[k]) THEN fail("ValueError")
        ELSE IF ~HasKey(h, "acq") THEN fail("KeyError")
        ELSE IF f.raised # "none" THEN fail(f.raised)
        ELSE [raised |-> "none", msg |-> NoMsg, volume |-> f.volume, header |-> h,
              open |-> r.open]

\* lines 88-111 and 167.  Returns the exception and what its message names,
\* the volume, the header and the handles left open.
LoadVolumetricData(filename, pn, wd, disk) ==
    LET r    == Read_4dfp_Header(filename \o <<".4dfp", ".ifh">>, pn, wd, disk)
        img  == Resolve(wd, pn \o <<"/">> \o filename \o <<".4dfp", ".img">>)
        fail(e) == [raised |-> e, msg |-> NoMsg, volume |-> NoVolume,
                    header |-> NoHeader, open |-> r.open]
        m    == Make_NativeSpace_4dfp(r.header)
        h    == m.header
        hasn == HasKey(h, "nVx") /\ HasKey(h, "nVy") /\ HasKey(h, "nVz")
                   /\ HasKey(h, "nVt")
        shp  == <<h["nVx"].n, h["nVy"].n, h["nVz"].n, h["nVt"].n>>
        v0   == Squeeze([shape |-> shp, data |-> disk[img].data])
        f    == FlipAll([raised |-> "none", volume |-> v0], AcqFlips(h["acq"]))
    IN  IF r.raised # "none" THEN fail(r.raised)
        ELSE IF img \notin DOMAIN disk THEN fail("FileNotFoundError")
        ELSE IF m.raised # "none" THEN fail(m.raised)
        ELSE IF ~hasn THEN fail("KeyError")
        ELSE IF \E k \in {"nVx", "nVy", "nVz", "nVt"} : ~IntOk(h[k]) THEN fail("ValueError")
        ELSE IF Prod(shp) # Len(disk[img].data)
        THEN [raised |-> "ValueError", msg |-> ReshapeMsg(Len(disk[img].data), shp),
              volume |-> NoVolume, header |-> NoHeader, open |-> r.open]
        ELSE IF ~HasKey(h, "acq") THEN fail("KeyError")
        ELSE IF f.raised # "none" THEN fail(f.raised)
        ELSE [raised |-> "none", msg |-> NoMsg, volume |-> f.volume, header |-> h,
              open |-> r.open]

\* ------------------------------------------- SaveVolumetricData, '4dfp'
\* header['nVt'] != np.size(volume,3): a str never equals an int
SameCount(x, n) == x.ty \in {"int", "float"} /\ x.n = n

\* lines 809-835.  Line 827 calls Write_4dfp_Header(header, pn + filename)
\* with two of its three required arguments, which raises TypeError before
\* the callee runs; lines 829-835 are never run.  Returns the exception and
\* the header, which lines 810-814 may have changed.
SaveVolumetricData(volume, header, filename, pn) ==
    LET nt == volume.shape[4]
        h1 == IF SameCount(header["nVt"], nt) THEN header
              ELSE [header EXCEPT !["nVt"] = Num("int", nt)]
        f  == FlipAll([raised |-> "none", volume |-> volume], AcqFlips(h1["acq"]))
    IN  IF ~HasKey(header, "nVt") THEN [raised |-> "KeyError", header |-> header]
        ELSE IF Len(volume.shape) < 4 THEN [raised |-> "IndexError", header |-> header]
        ELSE IF ~HasKey(h1, "acq") THEN [raised |-> "KeyError", header |-> h1]
        ELSE IF f.raised # "none" THEN [raised |-> f.raised, header |-> h1]
        ELSE [raised |-> "TypeError", header |-> h1]

\* ================================================== file operations, inputs
MaxVox == 2    \* largest voxel count per spatial axis of a file or volume
MaxT   == 2    \* largest number of time points

DataDir == <<"/", "data">>

WorkDir == <<"/", "work">>

Dirs == {DataDir, WorkDir}

\* the pn arguments: the data directory with and without a final separator
PathNames == {DataDir, DataDir \o <<"/">>}

BaseName == <<"vol">>

IfhPath == DataDir \o <<"/">> \o BaseName \o <<".4dfp", ".ifh">>

ImgPath == DataDir \o <<"/">> \o BaseName \o <<".4dfp", ".img">>

Op(name, file) == [name |-> name, file |-> file]

\* ---------------------------------------------------- a 4dfp pair on disk
\* the .ifh a 4dfp tool wrote for orientation o and sizes nv: with or
\* without the mmppix and center lines
LegacyIfh(o, nv, geom) ==
    LET sp   == Vec3(mm(2), 0 - mm(2), 0 - mm(2))
        nums(v) == <<TokFloat(v[0]), TokFloat(v[1]), TokFloat(v[2])>>
        base == << Line("INTERFILE", <<>>),
                   Line("version of keys", Word("3.3")),
                   Line("number format", Word("float")),
                   Line("conversion program", Word("nifti_4dfp")),
                   Line("name of data file", <<TokWord(BaseName \o <<".4dfp", ".img">>)>>),
                   Line("number of bytes per pixel", <<TokInt(4)>>),
                   Line("imagedata byte order", Word("littleendian")),
                   Line("orientation", <<TokInt(o)>>),
                   Line("number of dimensions", <<TokInt(4)>>),
                   Line("matrix size [1]", <<TokInt(nv[1])>>),
                   Line("matrix size [2]", <<TokInt(nv[2])>>),
                   Line("matrix size [3]", <<TokInt(nv[3])>>),
                   Line("matrix size [4]", <<TokInt(nv[4])>>),
                   Line("scaling factor (mm/pixel) [1]", <<TokFloat(mm(2))>>),
                   Line("scaling factor (mm/pixel) [2]", <<TokFloat(mm(2))>>),
                   Line("scaling factor (mm/pixel) [3]", <<TokFloat(mm(2))>>) >>
    IN  IF geom
        THEN base \o << Line("mmppix", nums(sp)),
                        Line("center", nums(Vec3(mm(3), 0 - mm(5), 0 - mm(5)))) >>
        ELSE base

\* the sizes of the pairs on disk: a single slice or a cube, 1..MaxT frames
Shapes == {<<MaxVox, MaxVox, z, t>> : z \in {1, MaxVox}, t \in 1..MaxT}

\* a disk holding one pair; `extra` more values in the .img than the header
\* declares
Disk(o, nv, geom, extra) ==
    [p \in {IfhPath, ImgPath} |->
        IF p = IfhPath THEN IfhFile(LegacyIfh(o, nv, geom))
        ELSE ImgFile([q \in 1..(Prod(nv) + extra) |-> q])]

Disks == {Disk(o, nv, geom, 0) : o \in {2, 3, 4}, nv \in Shapes, geom \in BOOLEAN}
         \cup {Disk(o, nv, FALSE, 1) : o \in {2, 3, 4}, nv \in Shapes}

\* --------------------------------------------- headers the caller may hold
\* cls: dict or AttrDict; numty: the sizes as int or as str; geom: mmppix and
\* center present; prov: 0 no provenance fields, 1 conversion_program and
\* filename as Write_4dfp_Header prints them, 2 as LoadVolumetricData sets
\* them for a NIfTI file
CallerHeader4dfp(cls, acq, nv, numty, geom, prov) ==
    LET sp == Vec3(mm(2), 0 - mm(2), 0 - mm(2))
        b0 == [version_of_keys |-> Word("3.3"), format |-> Word("float"),
               bytes_per_pixel |-> Num("int", 4), byte |-> "l", acq |-> acq,
               nDim |-> Num("int", 4),
               nVx |-> Num(numty, nv[1]), nVy |-> Num(numty, nv[2]),
               nVz |-> Num(numty, nv[3]), nVt |-> Num(numty, nv[4]),
               mmx |-> Num("float", mm(2)), mmy |-> Num("float", mm(2)),
               mmz |-> Num("float", mm(2))]
        b1 == SetKey(b0, "__class__", cls)
        b2 == IF geom
              THEN SetKey(SetKey(b1, "mmppix", Arr("list", sp)), "center",
                     Arr("list", Vec3(mm(3), 0 - mm(5), 0 - mm(5))))
              ELSE b1
    IN  IF prov = 0 THEN b2
        ELSE IF prov = 1
        THEN SetKey(SetKey(b2, "conversion_program", Word("MATLABto4dfp")),
                    "filename", <<TokWord(BaseName \o <<".4dfp">>)>>)
        ELSE SetKey(SetKey(b2, "conversion_program", Word("NeuroDOT_LoadVolumetricData")),
                    "filename", <<TokWord(BaseName \o <<".nii">>)>>)

\* the shapes of the volumes the caller holds
CubeShapes == {<<MaxVox, MaxVox, MaxVox, t>> : t \in 1..MaxT}

CallerHeaders ==
    {CallerHeader4dfp(cls, acq, nv, numty, geom, prov) :
        cls \in {"dict", "AttrDict"}, acq \in Acqs, nv \in CubeShapes,
        numty \in {"int", "str"}, geom \in BOOLEAN, prov \in 1..2}

\* the Transverse 64x64x64x1 header of 2.0 mm spacing without mmppix and
\* center
Header64 ==
    CallerHeader4dfp("dict", "transverse", <<64, 64, 64, 1>>, "int", FALSE, 0)

\* headers that carry one of mmppix and center without the other: an mmppix
\* of 1 mm beside mmx = mmy = mmz = 2 mm, or a center at the origin
PartialGeomHeaders ==
    LET base(acq) == CallerHeader4dfp("AttrDict", acq,
                                      <<MaxVox, MaxVox, MaxVox, 1>>, "int", FALSE, 1)
    IN  {SetKey(base(acq), "mmppix", Arr("list", Vec3(mm(1), 0 - mm(1), 0 - mm(1)))) :
            acq \in Acqs}
        \cup {SetKey(base(acq), "center", Arr("list", Vec3(0, 0, 0))) : acq \in Acqs}

\* what the caller holds at the start: a header with a volume of the
\* header's spatial sizes and vt time points, or the 64^3 header alone
CallerInputs ==
    {[hdr |-> h, vol |-> Ramp(<<h["nVx"].n, h["nVy"].n, h["nVz"].n, vt>>)] :
        h \in CallerHeaders \cup PartialGeomHeaders, vt \in 1..MaxT}
    \cup {[hdr |-> Header64, vol |-> NoVolume]}

DefaultDisk == Disk(2, <<2, 2, 1, 1>>, FALSE, 0)

DefaultCaller ==
    [hdr |-> CallerHeader4dfp("AttrDict", "transverse", <<2, 2, 1, 1>>, "int", FALSE, 0),
     vol |-> Ramp(<<2, 2, 1, 1>>)]

InitIO ==
    /\ \/ /\ fs \in Disks
          /\ hdr = DefaultCaller.hdr
          /\ vol = DefaultCaller.vol
          /\ cwd \in Dirs
       \/ /\ fs = DefaultDisk
          /\ \E c \in CallerInputs : hdr = c.hdr /\ vol = c.vol
          /\ cwd = WorkDir
    /\ handles = {}
    /\ io_raised = "none"
    /\ io_msg = NoMsg
    /\ io_op = Op("none", <<>>)

\* -------------------------------------------------------- file operations
\* header = Make_NativeSpace_4dfp(header)
IO_MakeNative ==
    /\ hdr # NoHeader
    /\ LET r == Make_NativeSpace_4dfp(hdr)
       IN  /\ hdr' = r.header
           /\ io_raised' = r.raised
    /\ io_op' = Op("native", <<>>)
    /\ io_msg' = NoMsg
    /\ UNCHANGED <<fs, cwd, handles, vol>>
    /\ UNCHANGED nvars

\* Write_4dfp_Header(header, filename, pn)
IO_WriteHeader(pn) ==
    /\ hdr # NoHeader
    /\ LET filename == BaseName \o <<".4dfp">>
           r == Write_4dfp_Header(hdr, filename, pn, cwd, Dirs, fs)
       IN  /\ fs' = r.fs
           /\ cwd' = r.cwd
           /\ io_raised' = r.raised
           /\ io_op' = Op("write", Resolve(r.cwd, filename \o <<".ifh">>))
    /\ io_msg' = NoMsg
    /\ UNCHANGED <<handles, hdr, vol>>
    /\ UNCHANGED nvars

\* header = Read_4dfp_Header(filename, pn).  No statement closes fid: when
\* the call ends the file object is unreferenced, and whether it is closed
\* then is up to the interpreter's memory management (`kept`)
IO_ReadHeader(pn) ==
    /\ LET filename == BaseName \o <<".4dfp", ".ifh">>
           r == Read_4dfp_Header(filename, pn, cwd, fs)
       IN  /\ hdr' = IF r.raised = "none" THEN r.header ELSE hdr
           /\ \E kept \in SUBSET r.open : handles' = handles \cup kept
           /\ io_raised' = r.raised
           /\ io_op' = Op("read", Resolve(cwd, pn \o filename))
    /\ io_msg' = NoMsg
    /\ UNCHANGED <<fs, cwd, vol>>
    /\ UNCHANGED nvars

\* volume, header = LoadVolumetricData(filename, pn, '4dfp')
IO_Load(pn) ==
    /\ LET r == LoadVolumetricData(BaseName, pn, cwd, fs)
       IN  /\ hdr' = IF r.raised = "none" THEN r.header ELSE hdr
           /\ vol' = IF r.raised = "none" THEN r.volume ELSE vol
           /\ \E kept \in SUBSET r.open : handles' = handles \cup kept
           /\ io_raised' = r.raised
           /\ io_msg' = r.msg
    /\ io_op' = Op("load", Resolve(cwd, pn \o <<"/">> \o BaseName \o <<".4dfp", ".img">>))
    /\ UNCHANGED <<fs, cwd>>
    /\ UNCHANGED nvars

\* SaveVolumetricData(volume, header, filename, pn, '4dfp')
IO_Save(pn) ==
    /\ hdr # NoHeader
    /\ vol # NoVolume
    /\ LET r == SaveVolumetricData(vol, hdr, BaseName, pn)
       IN  /\ hdr' = r.header
           /\ io_raised' = r.raised
    /\ io_op' = Op("save", Resolve(cwd, BaseName \o <<".4dfp", ".img">>))
    /\ io_msg' = NoMsg
    /\ UNCHANGED <<fs, cwd, handles, vol>>
    /\ UNCHANGED nvars

IdleIO ==
    /\ fs = DefaultDisk
    /\ cwd = WorkDir
    /\ handles = {}
    /\ hdr = NoHeader
    /\ vol = NoVolume
    /\ io_raised = "none"
    /\ io_msg = NoMsg
    /\ io_op = Op("none", <<>>)

vars == <<nvars, iovars>>

\* ------------------------------------------- specification of nifti_4dfp
Init == InitNifti /\ IdleIO

Next ==
    \/ pc = "idle" /\ \E h \in LegacyHeaders : Call_n(h)
    \/ n_CheckOrientation
    \/ n_BuildSform
    \/ n_ToLpi
    \/ n_AutoOrient
    \/ n_Reorder
    \/ pc = "idle" /\ \E h \in NiftiHeaders : Call_4(h)
    \/ f_NormalizeCodes
    \/ f_ParseNifti
    \/ f_ToLpi
    \/ f_Revorder
    \/ Return

Spec == Init /\ [][Next]_vars

\* ------------------------------------ specification of the file operations
InitFiles == InitNifti /\ InitIO

NextFiles ==
    \/ IO_MakeNative
    \/ \E pn \in PathNames : IO_WriteHeader(pn)
    \/ \E pn \in PathNames : IO_ReadHeader(pn)
    \/ \E pn \in PathNames : IO_Load(pn)
    \/ \E pn \in PathNames : IO_Save(pn)

SpecFiles == InitFiles /\ [][NextFiles]_vars

\* ============================== SaveVolumetricData, 'nii' (lines 837-855)
\* the file names given: without and with the extension
NiiNames == {BaseName, BaseName \o <<".nii">>}

\* the standardized header a NIfTI load attaches as 'original_header'
OriginalHeader ==
    NiftiHeader(CodeInt(3), CodeInt(3), Vec3(1, 0, 0), Vec3(0, 1, 0), Vec3(0, 0, 1), 1)

\* caller headers that carry 'original_header'
OriginalHeaders ==
    {SetKey(CallerHeader4dfp("dict", acq, <<MaxVox, MaxVox, MaxVox, 1>>, "int", TRUE, 2),
            "original_header", OriginalHeader) : acq \in Acqs}

NiiCallerInputs ==
    {c \in CallerInputs : c.vol # NoVolume}
    \cup {[hdr |-> h, vol |-> Ramp(<<MaxVox, MaxVox, MaxVox, 1>>)] : h \in OriginalHeaders}

InitNiiIO ==
    /\ fs = DefaultDisk
    /\ cwd \in Dirs
    /\ \E c \in NiiCallerInputs : hdr = c.hdr /\ vol = c.vol
    /\ handles = {}
    /\ io_raised = "none"
    /\ io_msg = NoMsg
    /\ io_op = Op("none", <<>>)

\* nb.save(image, path): the image file, named by its extension
\* (ImageFileError without one), in an existing directory
NibabelSave(data, path, dirs, disk) ==
    IF path[Len(path)] # ".nii" THEN [raised |-> "ImageFileError", fs |-> disk]
    ELSE IF ParentDir(path) \notin dirs THEN [raised |-> "FileNotFoundError", fs |-> disk]
    ELSE [raised |-> "none", fs |-> SetKey(disk, path, ImgFile(data))]

\* lines 852-855 with the transform's outcome written first, whatever it is
NiiOutput_WriteFirst(exc, data, path, dirs, disk) ==
    LET w == NibabelSave(data, path, dirs, disk)
    IN  IF exc # "none" THEN [raised |-> exc, fs |-> w.fs] ELSE w

\* lines 852-855 after nifti_4dfp has ended with exc: an exception of the
\* transform leaves SaveVolumetricData at line 852, else lines 853-855 save
\* the image
NiiOutput(exc, data, path, dirs, disk) ==
    IF exc # "none" THEN [raised |-> exc, fs |-> disk]
    ELSE NibabelSave(data, path, dirs, disk)

\* lines 837-838 and 851-852: no 'original_header', nifti_4dfp(header,
\* volume, 'n') is called on the flipped volume and the caller's header
IO_SaveNii_Convert(pn, filename) ==
    /\ pc = "idle"
    /\ hdr # NoHeader /\ vol # NoVolume
    /\ ~HasKey(hdr, "original_header")
    /\ pc' = "n_orient"
    /\ mode' = "n"
    /\ header_in' = hdr
    /\ header_arg' = hdr
    /\ order' = AXES_4DFP
    /\ img_in' = Flip(vol, 0)
    /\ io_op' = Op("savenii", Resolve(cwd, pn \o <<"/">> \o filename \o <<".nii">>))
    /\ io_raised' = "none"
    /\ io_msg' = NoMsg
    /\ UNCHANGED <<sform, dim, spacing, center, used, orientation, revorder,
                   raised, header_out, img_out, t4trans>>
    /\ UNCHANGED <<fs, cwd, handles, hdr, vol>>

\* lines 852-855: nifti_4dfp has ended; the header is the dict it worked on
IO_SaveNii_Finish ==
    /\ pc = "done"
    /\ io_op.name = "savenii"
    /\ LET r == NiiOutput(raised, img_out.data, io_op.file, Dirs, fs)
       IN  /\ fs' = r.fs
           /\ io_raised' = r.raised
    /\ hdr' = header_in
    /\ pc' = "idle"
    /\ mode' = "-"
    /\ header_in' = NoHeader
    /\ header_arg' = NoHeader
    /\ order' = Zero4
    /\ sform' = Zeros(3)
    /\ dim' = Zero4
    /\ spacing' = Zero3
    /\ center' = Zero3
    /\ used' = 0
    /\ orientation' = 0
    /\ revorder' = Zero4
    /\ raised' = "none"
    /\ header_out' = NoHeader
    /\ img_in' = NoVolume
    /\ img_out' = NoVolume
    /\ t4trans' = Unbound
    /\ UNCHANGED <<cwd, handles, vol, io_msg, io_op>>

\* lines 837-848: with 'original_header' the image is built from it and
\* saved under pn/filename; nifti_4dfp is not called
IO_SaveNii_Original(pn, filename) ==
    /\ pc = "idle"
    /\ hdr # NoHeader /\ vol # NoVolume
    /\ HasKey(hdr, "original_header")
    /\ LET path == Resolve(cwd, pn \o <<"/">> \o filename)
           r == NibabelSave(Flip(vol, 0).data, path, Dirs, fs)
       IN  /\ fs' = r.fs
           /\ io_raised' = r.raised
           /\ io_op' = Op("savenii", path)
    /\ io_msg' = NoMsg
    /\ UNCHANGED <<cwd, handles, hdr, vol>>
    /\ UNCHANGED nvars

InitNii == InitNifti /\ InitNiiIO

NextNii ==
    \/ \E pn \in PathNames : \E fn \in NiiNames : IO_SaveNii_Convert(pn, fn)
    \/ n_CheckOrientation
    \/ n_BuildSform
    \/ n_ToLpi
    \/ n_AutoOrient
    \/ n_Reorder
    \/ IO_SaveNii_Finish
    \/ \E pn \in PathNames : \E fn \in NiiNames : IO_SaveNii_Original(pn, fn)

SpecNii == InitNii /\ [][NextNii]_vars

\* ================================================================ claims
\* the to-LPI step has just run (lines 305-327 or 525-547)
AfterToLpi == pc \in {"n_flip", "f_revorder"}

IsPermutation(o) == {o[0], o[1], o[2]} = {0, 1, 2}

\* C1: after the to-LPI step, in mode 'n' and in mode '4', order[0..2] is a
\* permutation of {0,1,2} and the flip mask is a value in 0..7.
C1_OrderIsPermutation ==
    AfterToLpi => (IsPermutation(order) /\ orientation \in 0..7)

\* the axes not claimed by the output axes before i
Unclaimed(i) == (0..2) \ {order[c] : c \in 0..(i - 1)}

\* the unclaimed axes holding the largest magnitude of column i among the
\* unclaimed axes
Largest(i) ==
    {a \in Unclaimed(i) : \A b \in Unclaimed(i) : Abs(sform[a][i]) >= Abs(sform[b][i])}

\* C4: in the to-LPI step, when two unclaimed axes hold the same largest
\* magnitude in the column being assigned, the axis chosen is the lowest
\* such axis, one not claimed by an earlier output axis.
C4_TieBreakLowestUnclaimed ==
    AfterToLpi =>
        \A i \in 0..1 :
            Cardinality(Largest(i)) >= 2 =>
                (order[i] \in Largest(i) /\ \A a \in Largest(i) : order[i] <= a)

\* C10: when nifti_4dfp ends, in either mode, the header record it was given
\* is as it was when the call began: no key added, no value altered.
C10_HeaderInUnchanged ==
    pc = "done" => CallerHeader = header_arg

\* a legacy header whose acquisition is Transverse, Coronal or Sagittal
IsLegacyInput(h) == HasKey(h, "acq") /\ h["acq"] \in Acqs

\* C2: round trip n, 4, n.  Every leg has to return a header for the next
\* leg (and the comparison) to exist: a mode 'n' call on a legacy header of
\* orientation Transverse, Coronal or Sagittal ends by returning a
\* standardized header.
C2_RoundTripLegReturns ==
    (pc = "done" /\ mode = "n" /\ IsLegacyInput(header_arg)) =>
        (raised = "none" /\ HasKey(header_out, "srow_x")
           /\ HasKey(header_out, "pixdim") /\ HasKey(header_out, "dim"))

\* C8: the header that mode 'n' produces has sform_code=3, qform_code=3,
\* datatype=16, bitpix=32, vox_offset=352, sizeof_hdr=348 and
\* xyzt_units=2+8, whatever the input header.
C8_StandardizedConstants ==
    (pc = "done" /\ mode = "n" /\ IsLegacyInput(header_arg)) =>
        /\ HasKey(header_out, "sform_code")
        /\ header_out["sform_code"] = 3
        /\ header_out["qform_code"] = 3
        /\ header_out["datatype"] = 16
        /\ header_out["bitpix"] = 32
        /\ header_out["vox_offset"] = 352
        /\ header_out["sizeof_hdr"] = 348
        /\ header_out["xyzt_units"] = 2 + 8

\* C9: for a Transverse legacy header, the affine that mode 'n' produces has
\* on each spatial axis a diagonal entry of the magnitude of that axis's
\* mmppix, and pixdim holds those magnitudes.
C9_TransverseDiagonal ==
    (pc = "done" /\ mode = "n" /\ HasKey(header_arg, "acq")
       /\ header_arg["acq"] = "transverse") =>
        /\ HasKey(header_out, "srow_x")
        /\ Abs(header_out["srow_x"][0]) = Abs(header_arg["mmppix"].v[0])
        /\ Abs(header_out["srow_y"][1]) = Abs(header_arg["mmppix"].v[1])
        /\ Abs(header_out["srow_z"][2]) = Abs(header_arg["mmppix"].v[2])
        /\ \A i \in 0..2 : header_out["pixdim"][i + 1] = Abs(header_arg["mmppix"].v[i])

\* ------------------------------------------------ claims, file operations
\* a Transverse header of 64 x 64 x 64 x 1 voxels and 2.0 mm spacing that
\* has neither mmppix nor center
IsTransverse64(h) ==
    /\ HasKey(h, "acq") /\ h["acq"] = "transverse"
    /\ HasKey(h, "nVx") /\ h["nVx"].n = 64 /\ h["nVy"].n = 64 /\ h["nVz"].n = 64
    /\ h["nVt"].n = 1
    /\ h["mmx"].n = mm(2) /\ h["mmy"].n = mm(2) /\ h["mmz"].n = mm(2)
    /\ ~HasKey(h, "mmppix") /\ ~HasKey(h, "center")

\* Make_NativeSpace_4dfp has just been applied to the header the caller holds
NativeApplied(h) == IsTransverse64(h) /\ io_op'.name = "native" /\ hdr' # hdr

\* C3 (as the code computes it): Make_NativeSpace_4dfp applied to a
\* Transverse header with nVx=nVy=nVz=64, nVt=1, mmx=mmy=mmz=2.0 and neither
\* mmppix nor center yields mmppix=[2.0,-2.0,-2.0] and
\* center=[64.0,-66.0,-66.0], that is 2.0*(32+0), -2.0*(32+1), -2.0*(32+1).
C3_NativeSpace64 ==
    [][NativeApplied(hdr) =>
         /\ io_raised' = "none"
         /\ hdr'["mmppix"].v = Vec3(mm(2), 0 - mm(2), 0 - mm(2))
         /\ hdr'["center"].v = Vec3(mm(64), 0 - mm(66), 0 - mm(66))
         /\ \A k \in DOMAIN hdr : hdr'[k] = hdr[k]]_vars

\* C3 as stated: the same call yields center=[66.0,-66.0,-66.0].
C3_Center66 ==
    [][NativeApplied(hdr) =>
         /\ hdr'["mmppix"].v = Vec3(mm(2), 0 - mm(2), 0 - mm(2))
         /\ hdr'["center"].v = Vec3(mm(66), 0 - mm(66), 0 - mm(66))]_vars

\* the caller holds the 64^3 Transverse header after Make_NativeSpace_4dfp
\* has given it mmppix and center
C3_Native64Done ==
    /\ io_op.name = "native"
    /\ io_raised = "none"
    /\ HasKey(hdr, "nVx") /\ hdr["nVx"].n = 64
    /\ HasKey(hdr, "acq") /\ hdr["acq"] = "transverse"
    /\ HasKey(hdr, "mmppix") /\ HasKey(hdr, "center")
    /\ hdr["center"].ty = "ndarray"

\* C5: a SaveVolumetricData call of kind '4dfp' followed by a
\* LoadVolumetricData call of kind '4dfp' on the same name returns a volume
\* equal in shape and in every element to the volume that was saved.
C5_SaveThenLoad ==
    [][(io_op.name = "save" /\ io_op'.name = "load") =>
         (io_raised' = "none" /\ vol' = vol)]_vars

\* C6: after SaveVolumetricData, the raw data file it wrote is on disk and
\* holds exactly as many values as the volume has voxels, nothing before
\* them.
C6_RawFileHoldsVoxels ==
    io_op.name = "save" =>
        \E p \in DOMAIN fs :
            /\ fs[p].data # <<>>
            /\ Len(fs[p].data) = Prod(vol.shape)
            /\ p \in {io_op.file, ImgPath}

\* the header keys that hold a number, and those that hold three floats
NumKeys == {"bytes_per_pixel", "nDim", "nVx", "nVy", "nVz", "nVt", "mmx", "mmy", "mmz"}

ArrKeys == {"mmppix", "center"}

\* field k of header b reproduces field k of header a; a number or a vector
\* counts as reproduced when its value is, whatever its Python type
Reproduced(a, b, k) ==
    /\ HasKey(b, k)
    /\ IF k \in NumKeys THEN b[k].n = a[k].n
       ELSE IF k \in ArrKeys THEN b[k].v = a[k].v
       ELSE b[k] = a[k]

\* C7: when Write_4dfp_Header has written header h and Read_4dfp_Header
\* then reads the file written, the read returns a header that reproduces
\* every field of h (mmppix, center, conversion program and file name
\* included).
C7_TextRoundTrip ==
    [][(/\ io_op.name = "write" /\ io_raised = "none"
        /\ io_op'.name = "read" /\ io_op'.file = io_op.file) =>
         /\ io_raised' = "none"
         /\ \A k \in (DOMAIN hdr) \ {"__class__"} : Reproduced(hdr, hdr', k)]_vars

\* ----------------------------------------------- claims, error handling
\* the to-LPI step runs now (lines 305-327 or 525-547)
ToLpiRuns == pc \in {"n_tolpi", "f_tolpi"} /\ pc' # pc

\* C11: when the to-LPI step has claimed the same axis for output axes 0 and
\* 1, so that `used` is none of 3, 5, 6 and order[2] is not set, the call
\* ends there with an exception; it does not go on with the order[2] it had.
C11_AbortsWithoutPermutation ==
    [][(ToLpiRuns /\ order'[0] = order'[1]) =>
         (pc' = "done" /\ raised' # "none")]_vars

\* determinant of the 3x3 linear part
Det3(m) ==
    m[0][0] * (m[1][1] * m[2][2] - m[1][2] * m[2][1])
      - m[0][1] * (m[1][0] * m[2][2] - m[1][2] * m[2][0])
      + m[0][2] * (m[1][0] * m[2][1] - m[1][1] * m[2][0])

\* C12: a mode '4' call on a header whose linear part has determinant zero
\* ends with a singular-transform error and returns no header.
C12_SingularRejected ==
    (pc = "done" /\ mode = "4" /\ Det3(sform) = 0) =>
        (raised = "SingularTransformError" /\ header_out = NoHeader)

\* the supported codes: 0, 1, 2, 3, or one of their names
SupportedCode(c) ==
    \/ c.name \in {"scanner", "talairach", "unknown"}
    \/ c.name = "" /\ c.num \in 0..3

\* the header mode '4' works on
RawHeader(h) == IF HasKey(h, "raw") THEN h["raw"] ELSE h

\* C13: a mode '4' call on a header whose sform_code or qform_code is not a
\* supported code ends at the code check with an exception; the header is
\* not converted.
C13_UnsupportedCodeRejected ==
    [][(/\ pc = "f_codes" /\ pc' # pc
        /\ \/ ~SupportedCode(RawHeader(header_in)["sform_code"])
           \/ ~SupportedCode(RawHeader(header_in)["qform_code"])) =>
         (pc' = "done" /\ raised' # "none")]_vars

\* C18: in mode 'n', for a header that carries the orientation as 'acq' and
\* has no 'orientation' key (as Read_4dfp_Header and Make_NativeSpace_4dfp
\* leave it), the orientation check sets the axis order to [1,0,2] for
\* sagittal, [0,2,1] for coronal and [0,1,2] for transverse, and the call
\* goes on.
C18_StartingOrder ==
    [][(/\ pc = "n_orient" /\ pc' # pc
        /\ IsLegacyInput(header_in) /\ ~HasKey(header_in, "orientation")) =>
         /\ pc' = "n_sform"
         /\ order' = IF header_in["acq"] = "sagittal" THEN Swap(AXES_4DFP, 0, 1)
                     ELSE IF header_in["acq"] = "coronal" THEN Swap(AXES_4DFP, 1, 2)
                     ELSE AXES_4DFP]_vars

\* the spatial columns of m, as a bag: column c is <<m[0][c], m[1][c], m[2][c]>>
Column(m, c) == <<m[0][c], m[1][c], m[2][c]>>

\* C19: the reorder step (lines 337-345) runs and leaves a matrix whose
\* column order[j] is the column j held before, for j = 0, 1, 2: the three
\* columns rearranged, none duplicated, none lost.
C19_ReorderRearranges ==
    [][(pc = "n_reorder" /\ pc' # pc) =>
         /\ raised' = "none"
         /\ \A j \in 0..2 : Column(sform', order[j]) = Column(sform, j)]_vars

\* the flip of the affine runs now (lines 329-334)
FlipRuns == pc = "n_flip" /\ pc' # pc

\* the translation after the flips, each flipped axis i adding (dim[i]-1)
\* times w(i) to row r
Shifted(r, w(_)) ==
    sform[r][3]
      + (IF TestBit(orientation, 0) THEN (dim[0] - 1) * w(0)[r + 1] ELSE 0)
      + (IF TestBit(orientation, 1) THEN (dim[1] - 1) * w(1)[r + 1] ELSE 0)
      + (IF TestBit(orientation, 2) THEN (dim[2] - 1) * w(2)[r + 1] ELSE 0)

\* each flipped column is negated and ends positive at (order[i], i), each
\* other column is as it was
ColumnsFlipped ==
    \A i \in 0..2 :
        IF TestBit(orientation, i)
        THEN /\ \A r \in 0..2 : sform'[r][i] = 0 - sform[r][i]
             /\ sform'[order[i]][i] > 0
        ELSE \A r \in 0..2 : sform'[r][i] = sform[r][i]

SignedColumn(i) == Column(sform, i)

AbsColumn(i) == <<Abs(sform[0][i]), Abs(sform[1][i]), Abs(sform[2][i])>>

\* C20 (as the code computes it): when the flip mask is applied to the
\* affine in mode 'n', every flipped axis i has its column negated and
\* (dim[i]-1) times that column, as it was before the negation, added to the
\* translation column; afterwards the entry at (order[i], i) is positive;
\* the columns of the other axes are unchanged and add nothing to the
\* translation.
C20_FlipNegatesAndShifts ==
    [][FlipRuns =>
         /\ ColumnsFlipped
         /\ \A r \in 0..2 : sform'[r][3] = Shifted(r, SignedColumn)]_vars

\* C20 as stated: the translation column takes (dim[i]-1) times the absolute
\* value of the flipped column.
C20_ShiftByAbsColumn ==
    [][FlipRuns =>
         /\ ColumnsFlipped
         /\ \A r \in 0..2 : sform'[r][3] = Shifted(r, AbsColumn)]_vars

\* the affine has been flipped along an axis of more than one voxel
C20_FlippedLongAxis ==
    /\ pc = "n_reorder"
    /\ \E i \in 0..2 : TestBit(orientation, i) /\ dim[i] > 1 /\ sform[order[i]][i] > 0

\* ------------------------------------ claims, file operations (continued)
\* the header LoadVolumetricData gets for the pair on disk
DiskHeader == InterpretIfh(ParseIfh(fs[IfhPath].lines))

\* the sizes that header declares
DeclaredShape ==
    <<DiskHeader["nVx"].n, DiskHeader["nVy"].n, DiskHeader["nVz"].n, DiskHeader["nVt"].n>>

\* the pair on disk is one LoadVolumetricData can read up to the reshape:
\* both files are there, the header text parses, gives the four sizes as
\* integers and the spacing or mmppix
PairReadable ==
    /\ IfhPath \in DOMAIN fs /\ ImgPath \in DOMAIN fs
    /\ ~BadFloat(ParseIfh(fs[IfhPath].lines))
    /\ \A k \in {"nVx", "nVy", "nVz", "nVt"} :
          HasKey(DiskHeader, k) /\ DiskHeader[k].ty = "str"
    /\ \/ HasKey(DiskHeader, "mmppix")
       \/ HasKey(DiskHeader, "mmx") /\ HasKey(DiskHeader, "mmy") /\ HasKey(DiskHeader, "mmz")

\* LoadVolumetricData runs now and finds the two files of the pair
LoadRuns ==
    /\ io_op'.name = "load"
    /\ io_raised' \notin {"FileNotFoundError", "AssertionError"}

\* C14: loading a pair whose data file holds a number of values other than
\* nVx*nVy*nVz*nVt raises a ValueError whose message names the number of
\* values read and the shape the header declares; no volume and no header
\* are returned.
C14_ShapeMismatchRaises ==
    [][(LoadRuns /\ PairReadable /\ Prod(DeclaredShape) # Len(fs[ImgPath].data)) =>
         /\ io_raised' = "ValueError"
         /\ io_msg' = [size |-> Len(fs[ImgPath].data), shape |-> DeclaredShape]
         /\ vol' = vol
         /\ hdr' = hdr]_vars

\* a load has ended with the reshape error on a file of the wrong size
C14_MismatchSeen ==
    /\ io_op.name = "load"
    /\ io_raised = "ValueError"
    /\ io_msg # NoMsg
    /\ io_msg.size # Prod(io_msg.shape)
    /\ io_msg.size = Len(fs[ImgPath].data)

\* C15: SaveVolumetricData of kind '4dfp' on a header whose nVt differs from
\* the volume's 4th-axis length does not fail: it ends without exception
\* with header['nVt'] set to that length and the header file written with
\* it.
C15_SaveCorrectsCount ==
    [][(/\ io_op'.name = "save"
        /\ HasKey(hdr, "nVt") /\ Len(vol.shape) = 4
        /\ hdr["nVt"].n # vol.shape[4]) =>
         /\ io_raised' = "none"
         /\ hdr'["nVt"].n = vol.shape[4]
         /\ fs' # fs]_vars

\* Make_NativeSpace_4dfp runs now and returns
NativeReturns == io_op'.name = "native" /\ io_raised' = "none"

\* C16: Make_NativeSpace_4dfp leaves every field the header has as it is,
\* mmppix and center included; an absent mmppix becomes [mmx,-mmy,-mmz]; an
\* absent center becomes mmppix*(dims/2+[0,1,1]) componentwise, with the
\* mmppix the header then has; nothing else is added; applied to its result
\* it returns that result.
C16_NativeFrame ==
    [][NativeReturns =>
         /\ \A k \in DOMAIN hdr : hdr'[k] = hdr[k]
         /\ DOMAIN hdr' = DOMAIN hdr \cup {"mmppix", "center"}
         /\ ~HasKey(hdr, "mmppix") =>
               hdr'["mmppix"].v = Vec3(hdr["mmx"].n, 0 - hdr["mmy"].n, 0 - hdr["mmz"].n)
         /\ ~HasKey(hdr, "center") =>
               /\ 2 * hdr'["center"].v[0] = hdr'["mmppix"].v[0] * hdr["nVx"].n
               /\ 2 * hdr'["center"].v[1] = hdr'["mmppix"].v[1] * (hdr["nVy"].n + 2)
               /\ 2 * hdr'["center"].v[2] = hdr'["mmppix"].v[2] * (hdr["nVz"].n + 2)
         /\ Make_NativeSpace_4dfp(hdr') = [raised |-> "none", header |-> hdr']]_vars

\* the function has computed a center for a header that came with an mmppix
\* other than [mmx,-mmy,-mmz]
C16_CenterFromGivenMmppix ==
    /\ io_op.name = "native"
    /\ io_raised = "none"
    /\ HasKey(hdr, "mmppix") /\ HasKey(hdr, "center") /\ HasKey(hdr, "mmx")
    /\ hdr["mmppix"].v[0] # hdr["mmx"].n
    /\ hdr["center"].ty = "ndarray"
    /\ 2 * hdr["center"].v[1] = hdr["mmppix"].v[1] * (hdr["nVy"].n + 2)

\* the axes the volume is mirrored along, by orientation
MirrorAxes(acq) ==
    IF acq = "transverse" THEN {1}
    ELSE IF acq = "coronal" THEN {1, 2}
    ELSE {0, 1, 2}

\* the element of the 4-D array v at <<i0, i1, i2, i3>> (0-based)
At(v, ix) ==
    v.data[1 + ix[1] * Stride(v.shape, 0) + ix[2] * Stride(v.shape, 1)
             + ix[3] * Stride(v.shape, 2) + ix[4] * Stride(v.shape, 3)]

\* v mirrored along exactly the axes of the set
Mirrored(v, axes) ==
    [shape |-> v.shape,
     data  |-> [q \in 1..Len(v.data) |->
                  At(v, [a \in 1..4 |->
                           LET i == IndexAt(v.shape, a - 1, q - 1)
                           IN  IF (a - 1) \in axes THEN v.shape[a] - 1 - i ELSE i])]]

\* C17: LoadVolumetricData of kind '4dfp' returns the data of the file,
\* reshaped to nVx x nVy x nVz x nVt, mirrored along exactly axis 1 for
\* Transverse, axes 1 and 2 for Coronal, axes 0, 1 and 2 for Sagittal (and
\* then without its axes of length 1).
C17_LoadMirrorsAxes ==
    [][(LoadRuns /\ PairReadable /\ HasKey(DiskHeader, "acq")
          /\ Prod(DeclaredShape) = Len(fs[ImgPath].data)) =>
         /\ io_raised' = "none"
         /\ vol' = Squeeze(Mirrored([shape |-> DeclaredShape, data |-> fs[ImgPath].data],
                                    MirrorAxes(DiskHeader["acq"])))]_vars

\* ------------------------------------------- claims, mode '4' and handles
\* the code is 'unknown': the name, or one of the numbers 0 and 2 it stands for
UnknownCode(c) == c.name = "unknown" \/ (c.name = "" /\ c.num \in {0, 2})

\* the affine is parsed now (lines 480-522)
ParseRuns == pc = "f_parse" /\ pc' # pc

\* the 3x4 part of the affine QuaternSform gives for header h
QuaternAffine(h) ==
    LET pd == IF h["pixdim"][0] < 0 THEN [h["pixdim"] EXCEPT ![3] = 0 - @]
              ELSE h["pixdim"]
    IN  [i \in 0..2 |-> QuaternSform(h, pd)[i]]

\* C21: in mode '4', for a header given with sform code 'unknown' and a
\* qform code that is not 'unknown', the affine is the one built from
\* quatern_b/c/d, pixdim and qoffset, not the rows srow_x/y/z.
C21_QuaternionWhenSformUnknown ==
    [][(/\ ParseRuns
        /\ UnknownCode(RawHeader(header_arg)["sform_code"])
        /\ ~UnknownCode(RawHeader(header_arg)["qform_code"])) =>
         [i \in 0..2 |-> sform'[i]] = QuaternAffine(RawHeader(header_arg))]_vars

\* C24: the legacy header mode '4' returns has matrix_size equal to the
\* input's dim[revorder[0]+1], dim[revorder[1]+1], dim[revorder[2]+1],
\* followed by the input's time-axis count dim[4].
C24_MatrixSizeFromDims ==
    (pc = "done" /\ mode = "4") =>
        /\ HasKey(header_out, "matrix_size")
        /\ \A i \in 0..2 :
              header_out["matrix_size"][i] = RawHeader(header_arg)["dim"][revorder[i] + 1]
        /\ header_out["matrix_size"][3] = RawHeader(header_arg)["dim"][4]

\* C25: no handle opened by Read_4dfp_Header, LoadVolumetricData or
\* SaveVolumetricData is open once the operation has returned or raised.
C25_NoHandleLeftOpen == handles = {}

\* ------------------------------------------- claims, what the call returns
\* the orders of the three spatial axes
AxisOrders == {o \in [0..2 -> 0..2] : {o[0], o[1], o[2]} = {0, 1, 2}}

\* the 4-D array v with its spatial axes in the order o: axis a of the result
\* is axis o[a] of v
Permuted(v, o) ==
    LET shp == <<v.shape[o[0] + 1], v.shape[o[1] + 1], v.shape[o[2] + 1], v.shape[4]>>
    IN  [shape |-> shp,
         data  |-> [q \in 1..Len(v.data) |->
                      At(v, [a \in 1..4 |->
                               IF a = 4 THEN IndexAt(shp, 3, q - 1)
                               ELSE IndexAt(shp, CHOOSE k \in 0..2 : o[k] = a - 1, q - 1)])]]

\* C22: in mode 'n', for a Coronal header the call returns the input volume
\* mirrored along all three spatial axes (its axes in some order), whatever
\* flip mask and axis order were computed.
C22_CoronalMirroredThrice ==
    (pc = "done" /\ mode = "n" /\ HasKey(header_arg, "acq")
       /\ header_arg["acq"] = "coronal") =>
        /\ img_out # NoVolume
        /\ \E o \in AxisOrders : img_out = Mirrored(Permuted(img_in, o), {0, 1, 2})

\* C23: in mode '4', for a linear part of nonzero determinant, the call
\* computes a matrix t4trans whose 3x3 block times the linear part is the
\* identity.
C23_TrueInverse ==
    (pc = "done" /\ mode = "4" /\ Det3(sform) # 0) =>
        /\ t4trans # Unbound
        /\ \A i \in 0..2 : \A j \in 0..2 :
              t4trans[i][0] * sform[0][j] + t4trans[i][1] * sform[1][j]
                + t4trans[i][2] * sform[2][j] = IF i = j THEN 1 ELSE 0

\* ------------------------------------ claims, SaveVolumetricData of 'nii'
\* a step of a SaveVolumetricData call of kind 'nii'
SaveNiiStep == io_op'.name = "savenii"

\* C26: in a save of kind 'nii' without 'original_header', the files change
\* only once nifti_4dfp has ended without exception, so a transform that
\* fails leaves them as they were; with 'original_header' the save does not
\* enter nifti_4dfp at all.
C26_TransformBeforeOutput ==
    [][SaveNiiStep =>
         /\ (fs' # fs /\ pc # "idle") => (pc = "done" /\ raised = "none")
         /\ (pc = "idle" /\ ~HasKey(hdr, "original_header")) =>
               (fs' = fs /\ pc' = "n_orient")
         /\ (pc = "idle" /\ HasKey(hdr, "original_header")) =>
               (pc' = "idle" /\ UNCHANGED nvars)]_vars

\* a save without 'original_header' has ended with the exception of the
\* transform, which ran as far as adding matrix_size to the header, and the
\* files are as they were at the start
C26_TransformFailedNothingWritten ==
    /\ io_op.name = "savenii"
    /\ pc = "idle"
    /\ io_raised = "TypeError"
    /\ ~HasKey(hdr, "original_header")
    /\ HasKey(hdr, "matrix_size")
    /\ fs = DefaultDisk

====
